---- MODULE Spec2Model ----
(***************************************************************************)
(* Model of telegram/ext/_callbackcontext.py (CallbackContext) and         *)
(* telegram/request/_httpxrequest.py (HTTPXRequest).                       *)
(*                                                                         *)
(* Python values are encoded so that TLC can compare them:                 *)
(*   None            is the empty tuple <<>>                               *)
(*   a tuple (a, b)  is <<a, b>>                                           *)
(*   a list held in an Optional attribute is <<list>>  (so the empty list  *)
(*                   << <<>> >> differs from None)                         *)
(*   a dict object   is a reference (index) into heap; two names denote    *)
(*                   the same instance iff they hold the same reference    *)
(***************************************************************************)
EXTENDS Integers, Sequences, FiniteSets, TLC

\* ------------------------------------------------------------------ bounds
MaxCtx == 2
MaxMatches == 1
MaxTasks == 2

\* ------------------------------------------------------- value universes
None == <<>>
NoFault == "none"
ChatIds == {10}
UserIds == {20}
Keys == {"k"}
NoValue == "absent"
Vals == {"v"}
Dict == [Keys -> Vals \cup {NoValue}]
EmptyDict == [k \in Keys |-> NoValue]
Missing == 0
BotDataRef == 1
Queries == {"q1", "q2"}
MatchObjs == {"m1", "m2"}

VARIABLES heap, chat_store, user_store, persistence, bot, callback_data_cache,
          contexts, ret, persist_calls,
          client, ctor, calls, lifecycle

ctxVars == <<heap, chat_store, user_store, persistence, bot,
             callback_data_cache, contexts, ret, persist_calls>>
reqVars == <<client, ctor, calls, lifecycle>>
vars == <<heap, chat_store, user_store, persistence, bot, callback_data_cache,
          contexts, ret, persist_calls, client, ctor, calls, lifecycle>>

\* ======================================================================
\*                        CallbackContext
\* ======================================================================

\* Python's truth test of an Optional[tuple]: None is false, a 2-tuple true.
Truthy(x) == x # None

\* Sequences over S of length at most n.
SeqUpTo(S, n) == UNION {[1..k -> S] : k \in 0..n}

MatchLists == SeqUpTo(MatchObjs, MaxMatches)

\* CallbackContext.__init__: every slot starts as None.
NewContext ==
  [chat_id_and_data |-> None, user_id_and_data |-> None,
   args |-> None, matches |-> None, error |-> None, job |-> None,
   async_args |-> None, async_kwargs |-> None,
   ext |-> [n \in {} |-> None]]

\* The updates handed to from_update / from_error: an object that is not an
\* Update (is_update FALSE, which also stands for None), or an Update whose
\* effective_chat / effective_user are None or carry an id.
Updates ==
  [is_update : {TRUE}, chat : {None} \cup {<<c>> : c \in ChatIds},
                       user : {None} \cup {<<u>> : u \in UserIds}]
  \cup {[is_update |-> FALSE, chat |-> None, user |-> None]}

\* The updates from_error is given: no Update, or one with neither or both
\* of chat and user.
ErrorUpdates == {x \in Updates : x.chat = None <=> x.user = None}

\* dispatcher.chat_data[chat.id] / dispatcher.user_data[user.id]: the store
\* is a mapping owned by the dispatcher; a subscript with a key that has no
\* entry raises KeyError.
StoreHas(store, id) == store[id] # Missing
StoreGetItem(store, id) == store[id]

\* from_update with the chat binding taking the user's dict and the user
\* binding the chat's.
FromUpdateResult_Swapped(update, cstore, ustore) ==
  LET self == NewContext
      bindChat == update.is_update /\ Truthy(update.chat)
      bindUser == update.is_update /\ Truthy(update.user)
      chatFault == bindChat /\ ~StoreHas(cstore, update.chat[1])
      userFault == bindUser /\ ~StoreHas(ustore, update.user[1])
      both == bindChat /\ bindUser
      self1 == IF bindChat /\ ~chatFault
                 THEN [self EXCEPT !.chat_id_and_data =
                         <<update.chat[1],
                           IF both /\ ~userFault
                             THEN StoreGetItem(ustore, update.user[1])
                             ELSE StoreGetItem(cstore, update.chat[1])>>]
                 ELSE self
      self2 == IF bindUser /\ ~userFault
                 THEN [self1 EXCEPT !.user_id_and_data =
                         <<update.user[1],
                           IF both /\ ~chatFault
                             THEN StoreGetItem(cstore, update.chat[1])
                             ELSE StoreGetItem(ustore, update.user[1])>>]
                 ELSE self1
  IN IF chatFault \/ userFault
       THEN [fault |-> "KeyError", ctx |-> self]
       ELSE [fault |-> NoFault, ctx |-> self2]

\* from_update, lines 308-324: the result of the call as
\* [fault, ctx]; a KeyError from a store subscript leaves no context.
FromUpdateResult(update, cstore, ustore) ==
  LET self == NewContext
      bindChat == update.is_update /\ Truthy(update.chat)
      bindUser == update.is_update /\ Truthy(update.user)
      chatFault == bindChat /\ ~StoreHas(cstore, update.chat[1])
      userFault == bindUser /\ ~StoreHas(ustore, update.user[1])
      self1 == IF bindChat /\ ~chatFault
                 THEN [self EXCEPT !.chat_id_and_data =
                         <<update.chat[1], StoreGetItem(cstore, update.chat[1])>>]
                 ELSE self
      self2 == IF bindUser /\ ~userFault
                 THEN [self1 EXCEPT !.user_id_and_data =
                         <<update.user[1], StoreGetItem(ustore, update.user[1])>>]
                 ELSE self1
  IN IF chatFault \/ userFault
       THEN [fault |-> "KeyError", ctx |-> self]
       ELSE [fault |-> NoFault, ctx |-> self2]

\* from_update that puts the bot-wide dict into the store under an id that
\* has no entry.
FromUpdateStores_SetDefault(update, cstore, ustore) ==
  LET bindChat == update.is_update /\ Truthy(update.chat)
      bindUser == update.is_update /\ Truthy(update.user)
  IN <<IF bindChat /\ ~StoreHas(cstore, update.chat[1])
         THEN [cstore EXCEPT ![update.chat[1]] = BotDataRef] ELSE cstore,
       IF bindUser /\ ~StoreHas(ustore, update.user[1])
         THEN [ustore EXCEPT ![update.user[1]] = BotDataRef] ELSE ustore>>

\* from_update, lines 308-324: the dispatcher's chat and user stores after
\* the call; the stores are only subscripted, never assigned to.
FromUpdateStores(update, cstore, ustore) == <<cstore, ustore>>

\* from_job that also binds the context to the bot-wide dict as chat data.
FromJobContext_Bound(job) ==
  [NewContext EXCEPT !.job = <<job>>,
                     !.chat_id_and_data = <<CHOOSE c \in ChatIds : TRUE, BotDataRef>>]

\* from_job, lines 344-346.
FromJobContext(job) == [NewContext EXCEPT !.job = <<job>>]

\* Property getters, lines 148-189.
bot_data(ctx) == <<BotDataRef>>
chat_data(ctx) ==
  IF Truthy(ctx.chat_id_and_data) THEN <<ctx.chat_id_and_data[2]>> ELSE None
user_data(ctx) ==
  IF Truthy(ctx.user_id_and_data) THEN <<ctx.user_id_and_data[2]>> ELSE None

View(ctx, attr) ==
  CASE attr = "bot_data" -> bot_data(ctx)
    [] attr = "chat_data" -> chat_data(ctx)
    [] attr = "user_data" -> user_data(ctx)

DataAttrs == {"bot_data", "chat_data", "user_data"}

\* Setters that store the value instead of raising.
SetDataAttr_Assign(ctx, attr, value) ==
  [fault |-> NoFault,
   ctx |-> CASE attr = "chat_data" /\ Truthy(ctx.chat_id_and_data) ->
                  [ctx EXCEPT !.chat_id_and_data[2] = value[1]]
             [] attr = "user_data" /\ Truthy(ctx.user_id_and_data) ->
                  [ctx EXCEPT !.user_id_and_data[2] = value[1]]
             [] OTHER -> ctx]

\* Property setters, lines 155-159, 176-180, 191-195: the outcome of
\* `context.<attr> = value` as [fault, ctx].
SetDataAttr(ctx, attr, value) == [fault |-> "AttributeError", ctx |-> ctx]

\* self.matches[0], line 390: the outcome of the subscript.
MatchesGetItem0(matches) ==
  IF matches = None THEN [fault |-> "TypeError", value |-> None]
  ELSE IF Len(matches[1]) = 0 THEN [fault |-> "IndexError", value |-> None]
  ELSE [fault |-> NoFault, value |-> <<matches[1][1]>>]

\* match catching IndexError only.
match_OnlyIndexError(ctx) ==
  LET r == MatchesGetItem0(ctx.matches)
  IN IF r.fault \in {"IndexError"}
       THEN [fault |-> NoFault, value |-> None]
       ELSE r

\* The match property, lines 382-392.
match(ctx) ==
  LET r == MatchesGetItem0(ctx.matches)
  IN IF r.fault \in {"IndexError", "TypeError"}
       THEN [fault |-> NoFault, value |-> None]
       ELSE r

\* refresh_data, lines 206-218: the calls made on the persistence
\* collaborator, in order.
PCall(name, id, data) == [call |-> name, id |-> id, data |-> data]
\* refresh_data testing store_data.bot_data in all three places.
RefreshCalls_BotFlagOnly(p, ctx) ==
  IF p = None THEN <<>>
  ELSE (IF p[1].bot_data
          THEN <<PCall("refresh_bot_data", 0, bot_data(ctx)[1])>> ELSE <<>>)
    \o (IF p[1].bot_data /\ ctx.chat_id_and_data # None
          THEN <<PCall("refresh_chat_data", ctx.chat_id_and_data[1],
                       ctx.chat_id_and_data[2])>> ELSE <<>>)
    \o (IF p[1].bot_data /\ ctx.user_id_and_data # None
          THEN <<PCall("refresh_user_data", ctx.user_id_and_data[1],
                       ctx.user_id_and_data[2])>> ELSE <<>>)

RefreshCalls(p, ctx) ==
  IF p = None THEN <<>>
  ELSE (IF p[1].bot_data
          THEN <<PCall("refresh_bot_data", 0, bot_data(ctx)[1])>> ELSE <<>>)
    \o (IF p[1].chat_data /\ ctx.chat_id_and_data # None
          THEN <<PCall("refresh_chat_data", ctx.chat_id_and_data[1],
                       ctx.chat_id_and_data[2])>> ELSE <<>>)
    \o (IF p[1].user_data /\ ctx.user_id_and_data # None
          THEN <<PCall("refresh_user_data", ctx.user_id_and_data[1],
                       ctx.user_id_and_data[2])>> ELSE <<>>)

\* CallbackDataCache.drop_data(callback_query): KeyError when the query is
\* not in the cache, otherwise its entry is removed.
DropData(cache, q) ==
  IF q \in cache THEN [fault |-> NoFault, cache |-> cache \ {q}]
  ELSE [fault |-> "KeyError", cache |-> cache]

\* drop_callback_data without the arbitrary_callback_data test.
DropCallbackDataResult_NoFlagCheck(b, cache, q) ==
  IF b.kind = "ExtBot"
    THEN DropData(cache, q)
    ELSE [fault |-> "RuntimeError", cache |-> cache]

\* drop_callback_data, lines 239-246: outcome as [fault, cache].
DropCallbackDataResult(b, cache, q) ==
  IF b.kind = "ExtBot"
    THEN IF ~b.arbitrary_callback_data
           THEN [fault |-> "RuntimeError", cache |-> cache]
           ELSE DropData(cache, q)
    ELSE [fault |-> "RuntimeError", cache |-> cache]

\* The public slots of __slots__, lines 119-124, the properties that have
\* no setter, and the names kept in the instance __dict__ (line 125).
FixedFields == {"args", "matches", "error", "job", "async_args",
                "async_kwargs"}
ReadOnlyAttrs == {"dispatcher", "bot", "job_queue", "update_queue", "match"}
UpdateKeys == {"matches", "job", "chat_data"}

\* setattr that leaves job and error as they are.
SetAttr_GuardFixed(ctx, key, value) ==
  CASE key \in DataAttrs -> SetDataAttr(ctx, key, value)
    [] key \in ReadOnlyAttrs -> [fault |-> "AttributeError", ctx |-> ctx]
    [] key \in {"job", "error"} -> [fault |-> NoFault, ctx |-> ctx]
    [] key \in FixedFields ->
         [fault |-> NoFault, ctx |-> [ctx EXCEPT ![key] = value]]
    [] OTHER ->
         [fault |-> NoFault,
          ctx |-> [ctx EXCEPT !.ext =
                     [n \in DOMAIN ctx.ext \cup {key} |->
                        IF n = key THEN value ELSE ctx.ext[n]]]]

\* setattr(self, key, value), line 355: the data properties reject the
\* assignment, so does a property without a setter; a slot takes the
\* value, any other name goes to __dict__.
SetAttr(ctx, key, value) ==
  CASE key \in DataAttrs -> SetDataAttr(ctx, key, value)
    [] key \in ReadOnlyAttrs -> [fault |-> "AttributeError", ctx |-> ctx]
    [] key \in FixedFields ->
         [fault |-> NoFault, ctx |-> [ctx EXCEPT ![key] = value]]
    [] OTHER ->
         [fault |-> NoFault,
          ctx |-> [ctx EXCEPT !.ext =
                     [n \in DOMAIN ctx.ext \cup {key} |->
                        IF n = key THEN value ELSE ctx.ext[n]]]]

\* getattr(self, name): a data property, the match property, a slot, or a
\* name of __dict__; AttributeError for a name that was never set.
GetAttr(ctx, name) ==
  CASE name \in DataAttrs -> [fault |-> NoFault, value |-> View(ctx, name)]
    [] name = "match" -> match(ctx)
    [] name \in FixedFields -> [fault |-> NoFault, value |-> ctx[name]]
    [] name \in DOMAIN ctx.ext -> [fault |-> NoFault, value |-> ctx.ext[name]]
    [] OTHER -> [fault |-> "AttributeError", value |-> None]

RECURSIVE UpdateResult(_, _)
\* update, lines 354-355: data is the sequence of (key, value) items in
\* the order of data.items(); a setattr that raises ends the loop with the
\* earlier items set.
UpdateResult(ctx, data) ==
  IF data = <<>> THEN [fault |-> NoFault, ctx |-> ctx]
  ELSE LET r == SetAttr(ctx, Head(data)[1], Head(data)[2])
       IN IF r.fault # NoFault THEN r ELSE UpdateResult(r.ctx, Tail(data))

\* The values update() is given for a key.
UpdateValues(key) ==
  CASE key = "matches" -> {None} \cup {<<l>> : l \in MatchLists}
    [] key = "job" -> {None, <<"job">>}
    [] key = "chat_data" -> {<<BotDataRef>>}
    [] key = "args" -> {<< <<"a">> >>}
    [] key = "custom" -> {<<"x">>}

\* The mappings of one or two items over the given keys.
UpdateData(keys) ==
  LET items == UNION {{<<k, v>> : v \in UpdateValues(k)} : k \in keys}
  IN {<<a>> : a \in items}
       \cup {<<p[1], p[2]>> : p \in {q \in items \X items : q[1][1] # q[2][1]}}

\* ---------------------------------------------------------------- state
\* A slot of contexts holds no context (NoCtx) or the context <<ctx>>.
NoCtx == <<>>
Ctx(i) == contexts[i][1]
Live == {i \in 1..MaxCtx : contexts[i] # NoCtx}
Free == {i \in 1..MaxCtx : contexts[i] = NoCtx}
\* ret: the last call made, the context it was made on or returned (0 when
\* none), the exception it raised (NoFault when it returned) and its value.
Ret(op, self, fault, value) ==
  [op |-> op, self |-> self, fault |-> fault, value |-> value]

Persistences ==
  {None} \cup {<<sd>> : sd \in [bot_data : BOOLEAN, chat_data : BOOLEAN,
                                 user_data : BOOLEAN]}
Bots == {[kind |-> "Bot", arbitrary_callback_data |-> FALSE]}
        \cup [kind : {"ExtBot"}, arbitrary_callback_data : BOOLEAN]

CtxInit(P, B, C) ==
  /\ heap = <<EmptyDict>>
  /\ chat_store = [c \in ChatIds |-> Missing]
  /\ user_store = [u \in UserIds |-> Missing]
  /\ persistence \in P
  /\ bot \in B
  /\ callback_data_cache \in C
  /\ contexts = [i \in 1..MaxCtx |-> NoCtx]
  /\ ret = Ret("init", 0, NoFault, None)
  /\ persist_calls = <<>>

ctxFrame == UNCHANGED reqVars
cfgFrame == UNCHANGED <<persistence, bot>>

\* The dispatcher creates the per-id dict of a chat that has none.
DispatcherCreateChatEntry(c) ==
  /\ chat_store[c] = Missing
  /\ heap' = Append(heap, EmptyDict)
  /\ chat_store' = [chat_store EXCEPT ![c] = Len(heap) + 1]
  /\ ret' = Ret("create_chat_entry", 0, NoFault, None)
  /\ UNCHANGED <<user_store, callback_data_cache, contexts, persist_calls>>
  /\ cfgFrame /\ ctxFrame

\* The dispatcher creates the per-id dict of a user that has none.
DispatcherCreateUserEntry(u) ==
  /\ user_store[u] = Missing
  /\ heap' = Append(heap, EmptyDict)
  /\ user_store' = [user_store EXCEPT ![u] = Len(heap) + 1]
  /\ ret' = Ret("create_user_entry", 0, NoFault, None)
  /\ UNCHANGED <<chat_store, callback_data_cache, contexts, persist_calls>>
  /\ cfgFrame /\ ctxFrame

\* In-place write (or deletion, v = NoValue) on the dict the dispatcher
\* holds for a chat or user id.
DispatcherWrite(kind, id, k, v) ==
  LET store == IF kind = "chat" THEN chat_store ELSE user_store
  IN /\ id \in DOMAIN store
     /\ store[id] # Missing
     /\ heap[store[id]][k] # v
     /\ heap' = [heap EXCEPT ![store[id]][k] = v]
     /\ ret' = Ret("dispatcher_write", 0, NoFault, None)
     /\ UNCHANGED <<chat_store, user_store, callback_data_cache, contexts,
                    persist_calls>>
     /\ cfgFrame /\ ctxFrame

\* In-place write by a handler on context.<attr>, the object a getter
\* returned.
HandlerWrite(i, attr, k, v) ==
  /\ i \in Live
  /\ View(Ctx(i), attr) # None
  /\ LET r == View(Ctx(i), attr)[1]
     IN /\ heap[r][k] # v
        /\ heap' = [heap EXCEPT ![r][k] = v]
  /\ ret' = Ret("handler_write", i, NoFault, None)
  /\ UNCHANGED <<chat_store, user_store, callback_data_cache, contexts,
                 persist_calls>>
  /\ cfgFrame /\ ctxFrame

from_update(update) ==
  /\ Free # {}
  /\ LET i == CHOOSE j \in Free : \A l \in Free : j <= l
         r == FromUpdateResult(update, chat_store, user_store)
     IN /\ contexts' = IF r.fault = NoFault
                         THEN [contexts EXCEPT ![i] = <<r.ctx>>] ELSE contexts
        /\ ret' = Ret("from_update", IF r.fault = NoFault THEN i ELSE 0,
                      r.fault, None)
  /\ chat_store' = FromUpdateStores(update, chat_store, user_store)[1]
  /\ user_store' = FromUpdateStores(update, chat_store, user_store)[2]
  /\ UNCHANGED <<heap, callback_data_cache, persist_calls>>
  /\ cfgFrame /\ ctxFrame

from_job(job) ==
  /\ Free # {}
  /\ LET i == CHOOSE j \in Free : \A l \in Free : j <= l
     IN /\ contexts' = [contexts EXCEPT ![i] = <<FromJobContext(job)>>]
        /\ ret' = Ret("from_job", i, NoFault, None)
  /\ UNCHANGED <<heap, chat_store, user_store, callback_data_cache,
                 persist_calls>>
  /\ cfgFrame /\ ctxFrame

\* from_error, lines 283-288.
from_error(update, error, async_args, async_kwargs, job) ==
  /\ Free # {}
  /\ LET i == CHOOSE j \in Free : \A l \in Free : j <= l
         r == FromUpdateResult(update, chat_store, user_store)
         self == [r.ctx EXCEPT !.error = <<error>>, !.async_args = async_args,
                               !.async_kwargs = async_kwargs, !.job = job]
     IN /\ contexts' = IF r.fault = NoFault
                         THEN [contexts EXCEPT ![i] = <<self>>] ELSE contexts
        /\ ret' = Ret("from_error", IF r.fault = NoFault THEN i ELSE 0,
                      r.fault, None)
  /\ chat_store' = FromUpdateStores(update, chat_store, user_store)[1]
  /\ user_store' = FromUpdateStores(update, chat_store, user_store)[2]
  /\ UNCHANGED <<heap, callback_data_cache, persist_calls>>
  /\ cfgFrame /\ ctxFrame

GetterOp(attr) ==
  CASE attr = "bot_data" -> "get_bot_data"
    [] attr = "chat_data" -> "get_chat_data"
    [] attr = "user_data" -> "get_user_data"

SetterOp(attr) ==
  CASE attr = "bot_data" -> "set_bot_data"
    [] attr = "chat_data" -> "set_chat_data"
    [] attr = "user_data" -> "set_user_data"

\* context.<attr> = value for one of the three data properties.
set_data_attr(i, attr, value) ==
  /\ i \in Live
  /\ LET r == SetDataAttr(Ctx(i), attr, value)
     IN /\ contexts' = [contexts EXCEPT ![i] = <<r.ctx>>]
        /\ ret' = Ret(SetterOp(attr), i, r.fault, None)
  /\ UNCHANGED <<heap, chat_store, user_store, callback_data_cache,
                 persist_calls>>
  /\ cfgFrame /\ ctxFrame

refresh_data(i) ==
  /\ i \in Live
  /\ persist_calls' = RefreshCalls(persistence, Ctx(i))
  /\ ret' = Ret("refresh_data", i, NoFault, None)
  /\ UNCHANGED <<heap, chat_store, user_store, callback_data_cache, contexts>>
  /\ cfgFrame /\ ctxFrame

drop_callback_data(i, q) ==
  /\ i \in Live
  /\ LET r == DropCallbackDataResult(bot, callback_data_cache, q)
     IN /\ callback_data_cache' = r.cache
        /\ ret' = Ret("drop_callback_data", i, r.fault, None)
  /\ UNCHANGED <<heap, chat_store, user_store, contexts, persist_calls>>
  /\ cfgFrame /\ ctxFrame

\* Reading context.bot_data, context.chat_data or context.user_data.
get_data_attr(i, attr) ==
  /\ i \in Live
  /\ LET r == GetAttr(Ctx(i), attr)
     IN ret' = Ret(GetterOp(attr), i, r.fault, r.value)
  /\ UNCHANGED <<heap, chat_store, user_store, callback_data_cache, contexts,
                 persist_calls>>
  /\ cfgFrame /\ ctxFrame

\* Reading context.match.
get_match(i) ==
  /\ i \in Live
  /\ LET r == match(Ctx(i))
     IN ret' = Ret("match", i, r.fault, r.value)
  /\ UNCHANGED <<heap, chat_store, user_store, callback_data_cache, contexts,
                 persist_calls>>
  /\ cfgFrame /\ ctxFrame

\* update(data), lines 348-355.
update(i, data) ==
  /\ i \in Live
  /\ LET r == UpdateResult(Ctx(i), data)
     IN /\ contexts' = [contexts EXCEPT ![i] = <<r.ctx>>]
        /\ ret' = Ret("update", i, r.fault, data)
  /\ UNCHANGED <<heap, chat_store, user_store, callback_data_cache,
                 persist_calls>>
  /\ cfgFrame /\ ctxFrame


\* ======================================================================
\*                           HTTPXRequest
\* ======================================================================
Dims == {"connect", "read", "write", "pool"}

\* httpx.Timeout(connect=..., read=..., write=..., pool=...)
Timeout(c, r, w, p) == [connect |-> c, read |-> r, write |-> w, pool |-> p]

\* The constructor arguments the model draws from: the declared defaults
\* (lines 76-79) and a configuration with an infinite read timeout.
CtorChoices == {Timeout(<<5>>, <<5>>, <<5>>, <<1>>),
                Timeout(<<3>>, None, <<4>>, <<2>>)}

\* Per-call overrides: None (not supplied) or a value.
OverrideVals == {None, <<2>>}
Overrides == [Dims -> OverrideVals]

Urls == {"ok", "bad"}
Statuses == {200, 404}

\* The exception classes the httpx client raises, with their base class.
Base(cls) ==
  CASE cls \in {"httpx.ConnectTimeout", "httpx.ReadTimeout",
                "httpx.WriteTimeout", "httpx.PoolTimeout"}
         -> "httpx.TimeoutException"
    [] cls \in {"httpx.TimeoutException", "httpx.NetworkError",
                "httpx.ProtocolError"} -> "httpx.TransportError"
    [] cls = "httpx.ConnectError" -> "httpx.NetworkError"
    [] cls = "httpx.RemoteProtocolError" -> "httpx.ProtocolError"
    [] cls = "httpx.TransportError" -> "httpx.RequestError"
    [] cls = "httpx.RequestError" -> "httpx.HTTPError"
    [] cls \in {"httpx.HTTPError", "httpx.InvalidURL", "RuntimeError"}
         -> "Exception"
    [] OTHER -> "BaseException"

RECURSIVE IsInstance(_, _)
\* `except cls` matches an exception of class exc.
IsInstance(exc, cls) ==
  IF exc = cls THEN TRUE
  ELSE IF exc \in {"Exception", "BaseException"} THEN FALSE
  ELSE IsInstance(Base(exc), cls)

TimeoutExcs == {"httpx.ConnectTimeout", "httpx.ReadTimeout",
                "httpx.WriteTimeout", "httpx.PoolTimeout"}
\* What a request in flight can end with, besides a response.
TransportExcs == TimeoutExcs \cup {"httpx.ConnectError",
                                   "httpx.RemoteProtocolError"}

\* __init__, lines 81-101: the client starts unopened with the timeout
\* built from the constructor arguments.
NewClient(args) == [state |-> "unopened", timeout |-> args]

\* stop that does not close the client.
ClientAfterStop_NoClose(c) == c

\* stop, line 113: the client after aclose().
ClientAfterStop(c) == [c EXCEPT !.state = "closed"]

\* The merge with write_timeout stored in the read dimension.
MergeTimeout_WriteIntoRead(base, ov) ==
  LET t0 == Timeout(base.connect, base.read, base.write, base.pool)
      t1 == IF ov.read # None THEN [t0 EXCEPT !.read = ov.read] ELSE t0
      t2 == IF ov.write # None THEN [t1 EXCEPT !.read = ov.write] ELSE t1
      t3 == IF ov.connect # None THEN [t2 EXCEPT !.connect = ov.connect] ELSE t2
      t4 == IF ov.pool # None THEN [t3 EXCEPT !.pool = ov.pool] ELSE t3
  IN t4

\* do_request, lines 126-139: the call-local timeout.
MergeTimeout(base, ov) ==
  LET t0 == Timeout(base.connect, base.read, base.write, base.pool)
      t1 == IF ov.read # None THEN [t0 EXCEPT !.read = ov.read] ELSE t0
      t2 == IF ov.write # None THEN [t1 EXCEPT !.write = ov.write] ELSE t1
      t3 == IF ov.connect # None THEN [t2 EXCEPT !.connect = ov.connect] ELSE t2
      t4 == IF ov.pool # None THEN [t3 EXCEPT !.pool = ov.pool] ELSE t3
  IN t4

\* self._client.request(...), line 150, up to the point where the request
\* is sent: the url is parsed (InvalidURL), then a closed client refuses
\* to send (RuntimeError); NoFault when the request is sent.
ClientRequestStart(c, url) ==
  IF url = "bad" THEN "httpx.InvalidURL"
  ELSE IF c.state = "closed" THEN "RuntimeError"
  ELSE NoFault

\* The except clauses in the other order: HTTPError tested first.
MapFault_HTTPErrorFirst(exc) ==
  IF IsInstance(exc, "httpx.HTTPError") THEN "NetworkError"
  ELSE IF IsInstance(exc, "httpx.TimeoutException") THEN "TimedOut"
  ELSE exc

\* The try/except of do_request, lines 149-163: the exception the caller
\* sees when the client raised exc.
MapFault(exc) ==
  IF IsInstance(exc, "httpx.TimeoutException") THEN "TimedOut"
  ELSE IF IsInstance(exc, "httpx.HTTPError") THEN "NetworkError"
  ELSE exc

Tasks == 1..MaxTasks
NoResult == <<>>
IdleCall ==
  [pc |-> "idle", ov |-> None, sent |-> None, exc |-> NoFault,
   fault |-> NoFault, result |-> NoResult, after_stop |-> FALSE,
   attempts |-> 0, resp |-> None]

\* A second attempt after the first one raised.
CallAfterRaise_Retry(c, e) ==
  IF c.attempts < 2
    THEN [c EXCEPT !.pc = "awaiting", !.attempts = c.attempts + 1]
    ELSE [IdleCall EXCEPT !.pc = "done", !.exc = e, !.fault = MapFault(e),
                          !.after_stop = c.after_stop,
                          !.attempts = c.attempts]

\* do_request, lines 158-163: the call c after its request raised e; the
\* mapped exception leaves do_request.
CallAfterRaise(c, e) ==
  [IdleCall EXCEPT !.pc = "done", !.exc = e, !.fault = MapFault(e),
                   !.after_stop = c.after_stop, !.attempts = c.attempts]

\* do_request, line 165: the call c after its request returned res.
CallAfterResponse(c, res) ==
  [IdleCall EXCEPT !.pc = "done", !.resp = <<res>>,
                   !.result = <<res.status_code, res.content>>,
                   !.after_stop = c.after_stop, !.attempts = c.attempts]

ReqInit(choices) ==
  /\ ctor \in choices
  /\ client = NewClient(ctor)
  /\ calls = [t \in Tasks |-> IdleCall]
  /\ lifecycle = [initialized |-> FALSE, stop |-> "no"]

reqFrame == UNCHANGED ctxVars

\* initialize, lines 108-109: nothing but the fact that it was called.
initialize ==
  /\ ~lifecycle.initialized
  /\ lifecycle' = [lifecycle EXCEPT !.initialized = TRUE]
  /\ UNCHANGED <<client, ctor, calls>>
  /\ reqFrame

\* stop, lines 111-113, up to the await: aclose() marks the client closed.
stop_call ==
  /\ lifecycle.stop = "no"
  /\ client' = ClientAfterStop(client)
  /\ lifecycle' = [lifecycle EXCEPT !.stop = "closing"]
  /\ UNCHANGED <<ctor, calls>>
  /\ reqFrame

\* stop returns.
stop_return ==
  /\ lifecycle.stop = "closing"
  /\ lifecycle' = [lifecycle EXCEPT !.stop = "done"]
  /\ UNCHANGED <<client, ctor, calls>>
  /\ reqFrame

\* do_request, lines 126-157, up to the await of the client's request.
do_request_call(t, url, ov) ==
  /\ calls[t].pc = "idle"
  /\ LET timeout == MergeTimeout(client.timeout, ov)
         e == ClientRequestStart(client, url)
         after == lifecycle.stop = "done"
         started == [IdleCall EXCEPT !.pc = "awaiting", !.ov = <<ov>>,
                                     !.sent = <<timeout>>,
                                     !.after_stop = after, !.attempts = 1]
     IN IF e # NoFault
          THEN /\ calls' = [calls EXCEPT ![t] = CallAfterRaise(started, e)]
               /\ client' = client
          ELSE /\ calls' = [calls EXCEPT ![t] = started]
               /\ client' = [client EXCEPT !.state = "opened"]
  /\ UNCHANGED <<ctor, lifecycle>>
  /\ reqFrame

\* The awaited request completes with a response: line 165.
do_request_response(t, status) ==
  /\ calls[t].pc = "awaiting"
  /\ calls' = [calls EXCEPT ![t] =
        CallAfterResponse(calls[t],
                          [status_code |-> status, content |-> "body"])]
  /\ UNCHANGED <<client, ctor, lifecycle>>
  /\ reqFrame

\* The awaited request raises: lines 158-163.
do_request_raise(t, e) ==
  /\ calls[t].pc = "awaiting"
  /\ calls' = [calls EXCEPT ![t] = CallAfterRaise(calls[t], e)]
  /\ UNCHANGED <<client, ctor, lifecycle>>
  /\ reqFrame

\* The caller takes the outcome; the task may call again.
do_request_done(t) ==
  /\ calls[t].pc = "done"
  /\ calls' = [calls EXCEPT ![t] = IdleCall]
  /\ UNCHANGED <<client, ctor, lifecycle>>
  /\ reqFrame

ReqNext ==
  \/ initialize
  \/ stop_call
  \/ stop_return
  \/ \E t \in Tasks, url \in Urls, ov \in Overrides : do_request_call(t, url, ov)
  \/ \E t \in Tasks, st \in Statuses : do_request_response(t, st)
  \/ \E t \in Tasks, e \in TransportExcs : do_request_raise(t, e)
  \/ \E t \in Tasks : do_request_done(t)

\* ======================================================================
\*                          specifications
\* ======================================================================
NoPersistence == {None}
PlainBot == {[kind |-> "Bot", arbitrary_callback_data |-> FALSE]}
DefaultCtor == {Timeout(<<5>>, <<5>>, <<5>>, <<1>>)}

CreateEntries ==
  \/ \E c \in ChatIds : DispatcherCreateChatEntry(c)
  \/ \E u \in UserIds : DispatcherCreateUserEntry(u)

\* The data views: store entries, in-place writes, the three constructors
\* and the property setters.
DataNext ==
  \/ CreateEntries
  \/ \E kind \in {"chat", "user"}, id \in ChatIds \cup UserIds, k \in Keys,
        v \in Vals \cup {NoValue} : DispatcherWrite(kind, id, k, v)
  \/ \E i \in 1..MaxCtx, attr \in DataAttrs, k \in Keys,
        v \in Vals \cup {NoValue} : HandlerWrite(i, attr, k, v)
  \/ \E u \in Updates : from_update(u)
  \/ \E j \in {"job"} : from_job(j)
  \/ \E u \in ErrorUpdates : from_error(u, "err", None, None, None)
  \/ \E i \in 1..MaxCtx, attr \in DataAttrs :
        set_data_attr(i, attr, <<BotDataRef>>)
DataSpec ==
  /\ CtxInit(NoPersistence, PlainBot, {{}})
  /\ ReqInit(DefaultCtor)
  /\ [][DataNext]_vars

\* refresh_data under every persistence configuration.
RefreshNext ==
  \/ CreateEntries
  \/ \E u \in Updates : from_update(u)
  \/ \E j \in {"job"} : from_job(j)
  \/ \E i \in 1..MaxCtx : refresh_data(i)
RefreshSpec ==
  /\ CtxInit(Persistences, PlainBot, {{}})
  /\ ReqInit(DefaultCtor)
  /\ [][RefreshNext]_vars

\* drop_callback_data under every bot and cache.
DropNext ==
  \/ \E u \in Updates : from_update(u)
  \/ \E j \in {"job"} : from_job(j)
  \/ \E i \in 1..MaxCtx, q \in Queries : drop_callback_data(i, q)
DropSpec ==
  /\ CtxInit(NoPersistence, Bots, SUBSET Queries)
  /\ ReqInit(DefaultCtor)
  /\ [][DropNext]_vars

\* update() and the match property.
MatchNext ==
  \/ \E u \in Updates : from_update(u)
  \/ \E j \in {"job"} : from_job(j)
  \/ \E i \in 1..MaxCtx, key \in UpdateKeys :
        \E value \in UpdateValues(key) : update(i, <<<<key, value>>>>)
  \/ \E i \in 1..MaxCtx : get_match(i)
MatchSpec ==
  /\ CtxInit(NoPersistence, PlainBot, {{}})
  /\ ReqInit(DefaultCtor)
  /\ [][MatchNext]_vars

\* update() with mappings of one or two items over a slot that starts as
\* None (args), a slot from_job sets (job), a new name (custom) and a data
\* property (chat_data).
MergeKeys == {"args", "job", "custom", "chat_data"}
UpdateNext ==
  \/ \E u \in Updates : from_update(u)
  \/ \E j \in {"job"} : from_job(j)
  \/ \E i \in 1..MaxCtx, data \in UpdateData(MergeKeys) : update(i, data)
UpdateSpec ==
  /\ CtxInit(NoPersistence, PlainBot, {{}})
  /\ ReqInit(DefaultCtor)
  /\ [][UpdateNext]_vars

\* Every context operation next to the dispatcher's creation of entries,
\* under a persistence that stores all three kinds of data.
FullPersistence ==
  {<<[bot_data |-> TRUE, chat_data |-> TRUE, user_data |-> TRUE]>>}
FrameNext ==
  \/ CreateEntries
  \/ \E u \in Updates : from_update(u)
  \/ \E j \in {"job"} : from_job(j)
  \/ \E u \in ErrorUpdates : from_error(u, "err", None, None, None)
  \/ \E i \in 1..MaxCtx, attr \in DataAttrs : get_data_attr(i, attr)
  \/ \E i \in 1..MaxCtx : refresh_data(i)
  \/ \E i \in 1..MaxCtx, key \in {"job", "chat_data"} :
        \E value \in UpdateValues(key) : update(i, <<<<key, value>>>>)
FrameSpec ==
  /\ CtxInit(FullPersistence, PlainBot, {{}})
  /\ ReqInit(DefaultCtor)
  /\ [][FrameNext]_vars

\* The transport on its own.
ReqSpec ==
  /\ CtxInit(NoPersistence, PlainBot, {{}})
  /\ ReqInit(CtorChoices)
  /\ [][ReqNext]_vars


\* ======================================================================
\*                              claims
\* ======================================================================
SetterOps == {"set_bot_data", "set_chat_data", "set_user_data"}
Bound(i, c) == i \in Live /\ Ctx(i).chat_id_and_data # None
               /\ Ctx(i).chat_id_and_data[1] = c

\* C1: in every context that has a chat (user) binding for id c (u), the
\* chat_data (user_data) view is the very reference the dispatcher's store
\* holds for that id, so the two show the same contents after any in-place
\* writes and a context built later sees them.
C1_SharedInstance ==
  \A i \in Live :
    /\ Ctx(i).chat_id_and_data # None =>
         LET c == Ctx(i).chat_id_and_data[1]
         IN /\ chat_data(Ctx(i)) = <<chat_store[c]>>
            /\ heap[chat_data(Ctx(i))[1]] = heap[chat_store[c]]
    /\ Ctx(i).user_id_and_data # None =>
         LET u == Ctx(i).user_id_and_data[1]
         IN /\ user_data(Ctx(i)) = <<user_store[u]>>
            /\ heap[user_data(Ctx(i))[1]] = heap[user_store[u]]

\* A second context has just been built by from_update for a chat and a
\* user whose dicts were written before, a first context for the same chat
\* being still alive.
C1_Witness ==
  /\ ret.op = "from_update" /\ ret.self = 2
  /\ \E c \in ChatIds, u \in UserIds :
       /\ Bound(1, c) /\ Bound(2, c)
       /\ Ctx(2).user_id_and_data # None /\ Ctx(2).user_id_and_data[1] = u
       /\ \E k \in Keys : heap[chat_store[c]][k] # NoValue
       /\ \E k \in Keys : heap[user_store[u]][k] # NoValue

\* What the three views of every live context return, and the contents of
\* the dicts they lead to.
ViewsOf ==
  [i \in Live |-> [a \in DataAttrs |->
      IF View(Ctx(i), a) = None THEN <<>>
      ELSE <<View(Ctx(i), a)[1], heap[View(Ctx(i), a)[1]]>>]]

\* C2: an assignment to bot_data, chat_data or user_data raises
\* AttributeError and leaves what every view returns as it was.
C2_SettersRaise ==
  [][ret'.op \in SetterOps =>
       /\ ret'.fault = "AttributeError"
       /\ ViewsOf' = ViewsOf]_vars

\* user_data was assigned on a context that has a chat binding and no user
\* binding.
C2_Witness ==
  /\ ret.op = "set_user_data" /\ ret.fault = "AttributeError"
  /\ Ctx(ret.self).chat_id_and_data # None
  /\ Ctx(ret.self).user_id_and_data = None

\* C3: every failed do_request raised TimedOut or NetworkError.
C3_OnlyTaxonomyFaults ==
  \A t \in Tasks :
    (calls[t].pc = "done" /\ calls[t].result = NoResult)
      => calls[t].fault \in {"TimedOut", "NetworkError"}

\* C4: the timeout of every outgoing call is, dimension by dimension, the
\* call's override when it gave one and the constructor's value otherwise,
\* and the client's own timeout stays the constructor's.
C4_TimeoutPerCall ==
  /\ client.timeout = ctor
  /\ \A t \in Tasks : calls[t].pc = "awaiting" =>
       \A d \in Dims :
         calls[t].sent[1][d] = IF calls[t].ov[1][d] # None
                                 THEN calls[t].ov[1][d] ELSE ctor[d]

\* Two calls are in flight, one with a read override only and one with no
\* override.
C4_Witness ==
  \E t1, t2 \in Tasks :
    /\ t1 # t2
    /\ calls[t1].pc = "awaiting" /\ calls[t2].pc = "awaiting"
    /\ calls[t1].ov[1] = [d \in Dims |-> IF d = "read" THEN <<2>> ELSE None]
    /\ calls[t2].ov[1] = [d \in Dims |-> None]

\* C5: a do_request made after stop() returned ends at once with an
\* exception: it is never left waiting and never has a result.
C5_FailsAfterStop ==
  \A t \in Tasks : calls[t].after_stop =>
    /\ calls[t].pc = "done"
    /\ calls[t].fault # NoFault
    /\ calls[t].result = NoResult

\* A call with a valid url, made after initialize and a completed stop, has
\* failed.
C5_Witness ==
  \E t \in Tasks :
    /\ calls[t].after_stop /\ calls[t].pc = "done"
    /\ calls[t].exc = "RuntimeError"
    /\ lifecycle.initialized

\* C6: a call on which the client raised a timeout exception of any kind
\* raised TimedOut.
C6_TimeoutIsTimedOut ==
  \A t \in Tasks :
    (calls[t].pc = "done" /\ calls[t].exc \in TimeoutExcs)
      => calls[t].fault = "TimedOut"

\* Both tasks ended on a timeout, one waiting for the pool and one reading.
C6_Witness ==
  \E t1, t2 \in Tasks :
    /\ calls[t1].pc = "done" /\ calls[t1].exc = "httpx.PoolTimeout"
    /\ calls[t2].pc = "done" /\ calls[t2].exc = "httpx.ReadTimeout"

\* C7: with a bot that is no ExtBot or whose arbitrary_callback_data is
\* false, drop_callback_data raises RuntimeError and the cache is unchanged.
C7_DropNeedsArbitraryData ==
  [][(ret'.op = "drop_callback_data"
      /\ (bot.kind # "ExtBot" \/ ~bot.arbitrary_callback_data)) =>
       /\ ret'.fault = "RuntimeError"
       /\ callback_data_cache' = callback_data_cache]_vars

\* drop_callback_data raised on an ExtBot without arbitrary callback data
\* whose cache holds every query.
C7_Witness ==
  /\ ret.op = "drop_callback_data" /\ ret.fault = "RuntimeError"
  /\ bot.kind = "ExtBot" /\ ~bot.arbitrary_callback_data
  /\ callback_data_cache = Queries

\* C8: reading match raises nothing and gives None when matches is None or
\* empty, the first element of matches otherwise.
C8_MatchFirstOrNone ==
  ret.op = "match" =>
    LET m == Ctx(ret.self).matches
    IN /\ ret.fault = NoFault
       /\ (m = None \/ m = << <<>> >>) => ret.value = None
       /\ (m # None /\ m # << <<>> >>) => ret.value = <<Head(m[1])>>

\* match was read once with matches None and is now read with matches [].
C8_Witness ==
  /\ ret.op = "match" /\ ret.value = None
  /\ Ctx(ret.self).matches = << <<>> >>
  /\ \E i \in Live : Ctx(i).matches = None

\* C9: the context from_job returns carries the job and has neither a chat
\* nor a user binding: chat_data and user_data are None.
C9_FromJobUnbound ==
  ret.op = "from_job" =>
    /\ Ctx(ret.self).job = <<"job">>
    /\ Ctx(ret.self).chat_id_and_data = None
    /\ Ctx(ret.self).user_id_and_data = None
    /\ chat_data(Ctx(ret.self)) = None
    /\ user_data(Ctx(ret.self)) = None

\* from_job returned while both stores hold a written entry.
C9_Witness ==
  /\ ret.op = "from_job"
  /\ \A c \in ChatIds : chat_store[c] # Missing
                        /\ \E k \in Keys : heap[chat_store[c]][k] # NoValue
  /\ \A u \in UserIds : user_store[u] # Missing

PNameMade(n) == \E k \in DOMAIN persist_calls : persist_calls[k].call = n
PMade(call) == \E k \in DOMAIN persist_calls : persist_calls[k] = call

\* C10: refresh_data returns without an exception having made exactly these
\* calls, each at most once: refresh_bot_data iff persistence is set and
\* stores bot data; refresh_chat_data(chat_id, chat_data) iff persistence is
\* set, stores chat data and the context has a chat binding;
\* refresh_user_data(user_id, user_data) likewise.
C10_RefreshCalls ==
  ret.op = "refresh_data" =>
    LET c == Ctx(ret.self)
        on(kind) == /\ persistence # None
                    /\ CASE kind = "bot" -> persistence[1].bot_data
                         [] kind = "chat" -> persistence[1].chat_data
                         [] kind = "user" -> persistence[1].user_data
    IN /\ ret.fault = NoFault
       /\ PNameMade("refresh_bot_data") <=> on("bot")
       /\ PNameMade("refresh_chat_data")
            <=> (on("chat") /\ c.chat_id_and_data # None)
       /\ PNameMade("refresh_user_data")
            <=> (on("user") /\ c.user_id_and_data # None)
       /\ PNameMade("refresh_bot_data")
            => PMade(PCall("refresh_bot_data", 0, bot_data(c)[1]))
       /\ PNameMade("refresh_chat_data")
            => PMade(PCall("refresh_chat_data", c.chat_id_and_data[1],
                           chat_data(c)[1]))
       /\ PNameMade("refresh_user_data")
            => PMade(PCall("refresh_user_data", c.user_id_and_data[1],
                           user_data(c)[1]))
       /\ Len(persist_calls) =
            Cardinality({persist_calls[k].call : k \in DOMAIN persist_calls})

\* refresh_data ran on a context with a chat binding and no user binding
\* under a persistence that stores user data but not bot data: only the
\* chat call was made.
C10_Witness ==
  /\ ret.op = "refresh_data"
  /\ persistence = <<[bot_data |-> FALSE, chat_data |-> TRUE,
                      user_data |-> TRUE]>>
  /\ Ctx(ret.self).chat_id_and_data # None
  /\ Ctx(ret.self).user_id_and_data = None
  /\ Len(persist_calls) = 1


\* C12: a do_request call invokes the client's request exactly once: while
\* it waits and when it has ended the number of attempts is 1; a call that
\* ended with a result returns the status code and body of that attempt,
\* and a call that ended with an exception has no result.
C12_OneAttempt ==
  \A t \in Tasks :
    /\ calls[t].pc \in {"awaiting", "done"} => calls[t].attempts = 1
    /\ (calls[t].pc = "done" /\ calls[t].resp # None) =>
         /\ calls[t].result = <<calls[t].resp[1].status_code,
                                calls[t].resp[1].content>>
         /\ calls[t].fault = NoFault
    /\ (calls[t].pc = "done" /\ calls[t].resp = None) =>
         /\ calls[t].fault # NoFault
         /\ calls[t].result = NoResult

\* One call has ended with the 404 response of its attempt and another on
\* a connection error raised while it waited.
C12_Witness ==
  \E t1, t2 \in Tasks :
    /\ calls[t1].pc = "done" /\ calls[t1].result = <<404, "body">>
    /\ calls[t2].pc = "done" /\ calls[t2].exc = "httpx.ConnectError"
    /\ calls[t2].fault = "NetworkError"


AttrNames == FixedFields \cup DataAttrs \cup {"custom"}

ContextOps == {"from_update", "from_job", "from_error", "get_bot_data",
               "get_chat_data", "get_user_data", "refresh_data", "update"}
StoreKeys(store) == {id \in DOMAIN store : store[id] # Missing}

====
